---- MODULE Spec2Model ----
(***************************************************************************)
(* A model of luaSGF.c, the Lua binding of the Savitzky-Golay filter core. *)
(*                                                                         *)
(* The Lua state is single threaded and every C function of the binding    *)
(* runs to completion (by return or by a raised Lua error), so one action  *)
(* is one whole call of one C function.  The state is the userdata slots   *)
(* the binding has allocated (ud), the core filters they point to (heap),  *)
(* and the observation of the last call (last): its arguments, whether it  *)
(* raised, what it returned, the working buffers it malloc'ed and freed,   *)
(* and what it handed to the core.                                         *)
(*                                                                         *)
(* The numeric core (savgol_create, savgol_apply, savgol_apply_valid,      *)
(* savgol_destroy, mes_savgolFilter) is not part of luaSGF.c.  Its result  *)
(* is a nondeterministic choice between success and failure; the filtered  *)
(* samples it writes are the abstract value "y".                           *)
(***************************************************************************)
EXTENDS Integers, Sequences, FiniteSets, TLC

\* Userdata slots this model lets luaSGF.new allocate.
MaxHandles == 1
\* Longest data table passed to apply, apply_valid and calc.
MaxLen == 5

Handles == 1..MaxHandles

\* The C null pointer; a non-null SavgolFilter* is the index of its heap cell.
NULL == 0

\* A first argument that is no luaSGF.Filter userdata (a number, a table, ...).
Foreign == 0

(***************************************************************************)
(* Lua values stored in a data table.                                      *)
(***************************************************************************)
Nil == [t |-> "nil", v |-> 0]
Num == [t |-> "number", v |-> 7]
\* A string that does not convert to a number.
Str == [t |-> "string", v |-> 0]

\* A sequence of k numbers.
Dense(k) == [i \in 1..k |-> Num]

\* s with element i replaced by e.
Put(s, i, e) == [s EXCEPT ![i] = e]

\* The data tables: all numbers, or one hole, or one non-numeric element.
\* lua_rawlen returns a border of the table, so the last element of a
\* non-empty table is never nil.
Tables ==
  {Dense(k) : k \in 0..MaxLen}
    \cup {Put(Dense(p[1]), p[2], Nil) :
            p \in {q \in (2..MaxLen) \X (1..MaxLen) : q[2] < q[1]}}
    \cup {Put(Dense(p[1]), p[2], Str) :
            p \in {q \in (1..MaxLen) \X (1..MaxLen) : q[2] <= q[1]}}

\* lua_rawlen of a data table.
lua_rawlen(data) == Len(data)

\* lua_tonumber: the number itself, and 0 for a value that is no number.
lua_tonumber(e) == IF e.t = "number" THEN e.v ELSE 0

\* (uint8_t)x of a Lua integer x.
U8(x) == x % 256

\* Integer arguments scripts pass as half_window, poly_order, target_point.
ArgN == {-255, 0, 1, 2, 128, 256}
ArgM == {0, 3, 256}
ArgT == {0, 3}
\* half_window values passed to luaSGF.new (128 is left to calc: what the
\* core makes of a 257 sample window is not decided by luaSGF.c).
NewN == {0, 1, 2, 256, 257}

VARIABLES ud, heap, last

vars == <<ud, heap, last>>

\* A userdata slot: allocated by lua_newuserdata or not, carrying the
\* luaSGF.Filter metatable or not, its SavgolFilter*, whether the script
\* holds a reference to it, and whether the collector has run its finalizer.
FreeSlot ==
  [alloc |-> FALSE, mt |-> FALSE, ptr |-> NULL, held |-> FALSE, finalized |-> FALSE]

\* A heap cell of the core: a SavgolFilter, live between savgol_create and
\* savgol_destroy, with the number of savgol_destroy calls made on it.
FreeCell == [live |-> FALSE, destroys |-> 0, half_window |-> 0, window_size |-> 0]

\* The observation of a call.
NoCall ==
  [op |-> "none", self |-> Foreign, n |-> 0, m |-> 0, t |-> 0, data |-> <<>>,
   raised |-> FALSE, msg |-> "", min |-> 0, got |-> 0,
   nret |-> 0, ret1 |-> "none", out |-> <<>>, ret2 |-> "none",
   mallocs |-> 0, frees |-> 0, core |-> "none", coreIn |-> <<>>,
   oom |-> FALSE, before |-> FreeSlot]

\* luaL_error and the errors raised by the auxiliary library: no value is
\* returned, the call is unwound.
Raise(o, text) == [o EXCEPT !.raised = TRUE, !.msg = text]

Init ==
  /\ ud = [h \in Handles |-> FreeSlot]
  /\ heap = [k \in Handles |-> FreeCell]
  /\ last = NoCall

(***************************************************************************)
(* LIFECYCLE                                                               *)
(***************************************************************************)

\* The validation the core applies to the narrowed configuration.
ConfigValid(hw, po) == hw >= 1 /\ po < 2 * hw + 1

\* savgol_create: the new filter at address k, or NULL for a configuration
\* the core rejects or when the core is out of memory.
savgol_create(hw, po, mem, k) == IF ConfigValid(hw, po) /\ mem THEN k ELSE NULL

\* The SavgolFilter the core builds for half window hw.
NewCell(hw) ==
  [live |-> TRUE, destroys |-> 0, half_window |-> hw, window_size |-> 2 * hw + 1]

\* savgol_destroy on the filter at address k.
savgol_destroy(h, k) ==
  [h EXCEPT ![k] = [live |-> FALSE, destroys |-> @.destroys + 1,
                    half_window |-> 0, window_size |-> 0]]

\* Fault: the metatable set before the result of savgol_create is tested.
MetaFirstSlot(p) ==
  [alloc |-> TRUE, mt |-> TRUE, ptr |-> p, held |-> p # NULL, finalized |-> FALSE]
\* The userdata slot luaSGF_savgol_create leaves: it receives the metatable,
\* and is returned to the script, only when savgol_create returned a filter.
CreateSlot(p) ==
  [alloc |-> TRUE, mt |-> p # NULL, ptr |-> p, held |-> p # NULL, finalized |-> FALSE]

\* luaSGF.new{half_window = n, poly_order = m}; mem: the core has memory.
Create ==
  \E h \in Handles, n \in NewN, m \in ArgM, mem \in BOOLEAN :
    /\ ~ud[h].alloc
    /\ \A g \in Handles : g < h => ud[g].alloc
    /\ LET hw == U8(n)
           po == U8(m)
           p == savgol_create(hw, po, mem, h)
           o == [NoCall EXCEPT !.op = "new", !.self = h, !.n = n, !.m = m,
                               !.oom = ~mem, !.core = "savgol_create"]
       IN /\ ud' = [ud EXCEPT ![h] = CreateSlot(p)]
          /\ heap' = IF p # NULL THEN [heap EXCEPT ![h] = NewCell(hw)] ELSE heap
          /\ last' = IF p = NULL
                     THEN Raise(o, "luaSGF.new(): invalid parameters or out of memory")
                     ELSE [o EXCEPT !.nret = 1, !.ret1 = "userdata"]

\* luaL_checkudata(L, 1, LUASGF_METATABLE).
luaL_checkudata(self) == self # Foreign /\ ud[self].mt

\* What scripts can pass as the first argument of a method.
Selfs == {h \in Handles : ud[h].held} \cup {Foreign}

\* Fault: the pointer neither tested nor set to NULL.
DestroyKeepPointer(s) == [slot |-> s, freed |-> s.ptr]
\* The body of luaSGF_savgol_destroy on slot s: the slot it leaves and the
\* filter it hands to savgol_destroy (NULL: none).
luaSGF_savgol_destroy(s) ==
  IF s.ptr # NULL
  THEN [slot |-> [s EXCEPT !.ptr = NULL], freed |-> s.ptr]
  ELSE [slot |-> s, freed |-> NULL]

\* The state a call of luaSGF_savgol_destroy on userdata h leaves, observed as o.
DestroyCall(h, o) ==
  LET r == luaSGF_savgol_destroy(ud[h])
  IN /\ heap' = IF r.freed # NULL THEN savgol_destroy(heap, r.freed) ELSE heap
     /\ last' = [o EXCEPT !.before = ud[h],
                          !.core = IF r.freed # NULL THEN "savgol_destroy" ELSE "none"]
     /\ ud' = [ud EXCEPT ![h] = [r.slot EXCEPT !.held = o.op = "destroy",
                                               !.finalized = o.op = "__gc"]]

\* filter:destroy() (and filter:__gc(), the same function) called by a script.
Destroy ==
  \E self \in Selfs :
    LET o == [NoCall EXCEPT !.op = "destroy", !.self = self]
    IN IF luaL_checkudata(self)
       THEN DestroyCall(self, o)
       ELSE /\ last' = Raise(o, "luaSGF.Filter expected")
            /\ UNCHANGED <<ud, heap>>

\* The collector finalizes a userdata the script no longer refers to: it
\* calls __gc when the userdata has the metatable.
Finalize ==
  \E h \in Handles :
    /\ ud[h].alloc /\ ud[h].mt /\ ~ud[h].finalized
    /\ DestroyCall(h, [NoCall EXCEPT !.op = "__gc", !.self = h])

\* The collector reclaims a userdata: one without metatable has no finalizer,
\* one with the metatable is reclaimed after its finalizer has run.
Collect ==
  \E h \in Handles :
    /\ ud[h].alloc /\ ~ud[h].held /\ (ud[h].mt => ud[h].finalized)
    /\ ud' = [ud EXCEPT ![h] = FreeSlot]
    /\ heap' = IF heap[h].live THEN heap ELSE [heap EXCEPT ![h] = FreeCell]
    /\ last' = [NoCall EXCEPT !.op = "collect", !.self = h, !.before = ud[h]]

(***************************************************************************)
(* FILTERING                                                               *)
(***************************************************************************)

\* The filter a non-null SavgolFilter* points to.  The binding dereferences a
\* pointer only after its null check.
Deref(p) == IF p = NULL THEN FreeCell ELSE heap[p]

\* Fault: the null check left out.
NoArgCheck(p) == TRUE
\* luaL_argcheck(L, *ud != NULL, 1, "filter has been destroyed").
FilterAlive(p) == p # NULL

\* Faults: the length compared with <=, and with the half window.
TooShortOffByOne(len, window_size) == len <= window_size
TooShortHalfWindow(len, window_size) == len < (window_size - 1) \div 2
\* The length check of apply and apply_valid: len < window_size.
TooShort(len, window_size) == len < window_size

\* The two malloc calls of a handler: each returns a buffer or NULL.
MallocOutcomes == BOOLEAN \X BOOLEAN

\* The buffers among the two that are not NULL.
Allocated(a) == (IF a[1] THEN 1 ELSE 0) + (IF a[2] THEN 1 ELSE 0)

\* A malloc'ed buffer of the given number of floats, not yet written.
Buffer(size) == [i \in 1..size |-> "?"]

\* The copy loop of apply, from index i on, with acc copied so far: it stops
\* at a hole (the handler frees and reports it) and at an element
\* luaL_checknumber rejects (which raises from inside the loop).
RECURSIVE ApplyCopy(_, _, _)
ApplyCopy(data, i, acc) ==
  IF i > Len(data) THEN [status |-> "ok", at |-> 0, in |-> acc]
  ELSE IF data[i].t = "nil" THEN [status |-> "hole", at |-> i, in |-> acc]
  ELSE IF data[i].t # "number" THEN [status |-> "notnumber", at |-> i, in |-> acc]
  ELSE ApplyCopy(data, i + 1, Append(acc, data[i].v))

\* The copy loop of apply_valid: no test for a hole, luaL_checknumber raises
\* on nil as on any other element that is no number.
RECURSIVE ValidCopy(_, _, _)
ValidCopy(data, i, acc) ==
  IF i > Len(data) THEN [status |-> "ok", at |-> 0, in |-> acc]
  ELSE IF data[i].t # "number" THEN [status |-> "notnumber", at |-> i, in |-> acc]
  ELSE ValidCopy(data, i + 1, Append(acc, data[i].v))

\* The copy loop of calc: lua_tonumber never raises.
RECURSIVE CalcCopy(_, _, _)
CalcCopy(data, i, acc) ==
  IF i > Len(data) THEN [status |-> "ok", at |-> 0, in |-> acc]
  ELSE CalcCopy(data, i + 1, Append(acc, lua_tonumber(data[i])))

\* savgol_apply and mes_savgolFilter: 0 and len filtered samples written to
\* out, or a nonzero code.
savgol_apply(out, len, ok) ==
  IF ok THEN [rc |-> 0, out |-> [i \in 1..Len(out) |-> IF i <= len THEN "y" ELSE out[i]]]
  ELSE [rc |-> 1, out |-> out]

\* savgol_apply_valid: the number of samples written, in_len - 2n, or 0.
savgol_apply_valid(f, out, in_len, ok) ==
  LET written == in_len - 2 * f.half_window
  IN IF ok /\ written > 0
     THEN [written |-> written,
           out |-> [i \in 1..Len(out) |-> IF i <= written THEN "y" ELSE out[i]]]
     ELSE [written |-> 0, out |-> out]

\* Fault: the last element left out.
BuildTableShort(buf, count) == [i \in 1..(count - 1) |-> buf[i]]
\* The result table: lua_createtable, then count elements of buf stored at
\* 1..count.
BuildTable(buf, count) == [i \in 1..count |-> buf[i]]

\* The size of the output buffer of apply_valid: in_len - 2 * hw.
ValidOutLen(in_len, hw) == in_len - 2 * hw

\* A handler that raised after it had malloc'ed k buffers and freed j.
Raised(o, text, k, j) == [Raise(o, text) EXCEPT !.mallocs = k, !.frees = j]

\* luaSGF_savgol_apply on a live filter f: every observation it can end with.
ApplyOutcomes(o, f, data) ==
  LET len == lua_rawlen(data)
  IN IF TooShort(len, f.window_size)
     THEN {[Raise(o, "input table too short") EXCEPT !.min = f.window_size, !.got = len]}
     ELSE UNION {
       IF ~(a[1] /\ a[2])
       THEN {Raised(o, "memory allocation failed", Allocated(a), Allocated(a))}
       ELSE LET c == ApplyCopy(data, 1, <<>>)
            IN IF c.status = "hole"
               THEN {[Raised(o, "input table has a hole", 2, 2) EXCEPT !.got = c.at]}
               ELSE IF c.status = "notnumber"
               THEN {Raised(o, "number expected", 2, 0)}
               ELSE UNION {
                 LET r == savgol_apply(Buffer(len), len, ok)
                     oc == [o EXCEPT !.core = "savgol_apply", !.coreIn = c.in]
                 IN IF r.rc # 0
                    THEN {Raised(oc, "savgol_apply failed", 2, 2)}
                    ELSE {Raised(oc, "not enough memory", 2, 0),
                          [oc EXCEPT !.nret = 1, !.ret1 = "table",
                                     !.out = BuildTable(r.out, len),
                                     !.mallocs = 2, !.frees = 2]}
                 : ok \in BOOLEAN}
       : a \in MallocOutcomes}

\* luaSGF_savgol_apply_valid on a live filter f.
ApplyValidOutcomes(o, f, data) ==
  LET in_len == lua_rawlen(data)
      hw == f.half_window
  IN IF TooShort(in_len, f.window_size)
     THEN {[Raise(o, "input table too short for 'valid' output")
              EXCEPT !.min = f.window_size, !.got = in_len]}
     ELSE LET out_len == ValidOutLen(in_len, hw) IN
       UNION {
       IF ~(a[1] /\ a[2])
       THEN {Raised(o, "memory allocation failed", Allocated(a), Allocated(a))}
       ELSE LET c == ValidCopy(data, 1, <<>>)
            IN IF c.status = "notnumber"
               THEN {Raised(o, "number expected", 2, 0)}
               ELSE UNION {
                 LET r == savgol_apply_valid(f, Buffer(out_len), in_len, ok)
                     oc == [o EXCEPT !.core = "savgol_apply_valid", !.coreIn = c.in]
                 IN IF r.written = 0 /\ out_len > 0
                    THEN {Raised(oc, "savgol_apply_valid core execution failed", 2, 2)}
                    ELSE {Raised(oc, "not enough memory", 2, 0),
                          [oc EXCEPT !.nret = 1, !.ret1 = "table",
                                     !.out = BuildTable(r.out, r.written),
                                     !.mallocs = 2, !.frees = 2]}
                 : ok \in BOOLEAN}
       : a \in MallocOutcomes}

\* The checks both methods make of their first argument: the error they
\* raise, "" when the argument passes.
MethodEntryError(self) ==
  IF ~luaL_checkudata(self) THEN "luaSGF.Filter expected"
  ELSE IF ~FilterAlive(ud[self].ptr) THEN "filter has been destroyed"
  ELSE ""

\* The observation of a method call on self, with the userdata as it was.
MethodObs(name, self, data) ==
  [NoCall EXCEPT !.op = name, !.self = self, !.data = data,
                 !.before = IF luaL_checkudata(self) THEN ud[self] ELSE FreeSlot]

\* filter:apply(data)
Apply ==
  \E self \in Selfs, data \in Tables :
    LET o == MethodObs("apply", self, data)
        e == MethodEntryError(self)
    IN /\ last' \in IF e # "" THEN {Raise(o, e)}
                    ELSE ApplyOutcomes(o, Deref(ud[self].ptr), data)
       /\ UNCHANGED <<ud, heap>>

\* filter:apply_valid(data)
ApplyValid ==
  \E self \in Selfs, data \in Tables :
    LET o == MethodObs("apply_valid", self, data)
        e == MethodEntryError(self)
    IN /\ last' \in IF e # "" THEN {Raise(o, e)}
                    ELSE ApplyValidOutcomes(o, Deref(ud[self].ptr), data)
       /\ UNCHANGED <<ud, heap>>

\* A (nil, message) return of calc after k buffers malloc'ed and j freed.
NilMessage(o, text, k, j) ==
  [o EXCEPT !.nret = 2, !.ret1 = "nil", !.ret2 = "string", !.msg = text,
            !.mallocs = k, !.frees = j]

\* The validation luaSGF_calc makes of its narrowed arguments, in its own
\* order: the message of the first check that fails, "" when all pass.
\* The window compared with the polynomial order is computed in 8 bits; the
\* one compared with the target point and the data size is an int.
CalcConfigError(halfWindowSize, polynomialOrder, targetPoint) ==
  IF halfWindowSize < 1
  THEN "Half-window size must be greater than 0."
  ELSE IF polynomialOrder >= U8(2 * halfWindowSize + 1)
  THEN "Polynomial order must be less than the filter window size."
  ELSE IF targetPoint > 2 * halfWindowSize
  THEN "Target point must be within the filter window."
  ELSE ""

\* luaSGF_calc(n, m, t, d, data): every observation it can end with.
CalcOutcomes(o, n, m, t, data) ==
  LET halfWindowSize == U8(n)
      polynomialOrder == U8(m)
      targetPoint == U8(t)
      err == CalcConfigError(halfWindowSize, polynomialOrder, targetPoint)
      dataSize == lua_rawlen(data)
  IN IF err # ""
     THEN {NilMessage(o, err, 0, 0)}
     ELSE IF 2 * halfWindowSize + 1 > dataSize
     THEN {NilMessage(o, "Filter window size must not exceed data size.", 0, 0)}
     ELSE UNION {
       IF ~(a[1] /\ a[2])
       THEN {NilMessage(o, "Memory allocation failure.", Allocated(a), Allocated(a))}
       ELSE LET c == CalcCopy(data, 1, <<>>)
            IN UNION {
                 LET r == savgol_apply(Buffer(dataSize), dataSize, ok)
                     oc == [o EXCEPT !.core = "mes_savgolFilter", !.coreIn = c.in]
                 IN IF r.rc # 0
                    THEN {NilMessage(oc, "Internal filter execution failed.", 2, 2)}
                    ELSE {Raised(oc, "not enough memory", 2, 1),
                          [oc EXCEPT !.nret = 2, !.ret1 = "table", !.ret2 = "nil",
                                     !.out = BuildTable(r.out, dataSize),
                                     !.mallocs = 2, !.frees = 2]}
                 : ok \in BOOLEAN}
       : a \in MallocOutcomes}

\* luaSGF.calc(n, m, t, 0, data) with n, m and data drawn from N, M and D.
CalcWith(N, M, D) ==
  \E n \in N, m \in M, t \in ArgT, data \in D :
    /\ last' \in CalcOutcomes([NoCall EXCEPT !.op = "calc", !.n = n, !.m = m,
                                             !.t = t, !.data = data],
                              n, m, t, data)
    /\ UNCHANGED <<ud, heap>>

Calc == CalcWith(ArgN, ArgM, Tables)

\* The arguments that fit the uint8_t they are narrowed to.
InRange(S) == {x \in S : U8(x) = x}

\* calc called with arguments that survive the narrowing.
CalcInRange == CalcWith(InRange(ArgN), InRange(ArgM), Tables)

\* calc called with such arguments and a table of numbers only.
CalcDense == CalcWith(InRange(ArgN), InRange(ArgM), {Dense(k) : k \in 0..MaxLen})

\* The step did not end in a memory error of the Lua allocator.
LuaHasMemory == last'.msg # "not enough memory"

Next == Create \/ Destroy \/ Finalize \/ Collect \/ Apply \/ ApplyValid

\* The filter objects: new, destroy, the collector, apply and apply_valid.
Spec == Init /\ [][Next]_vars

\* The filter objects in a Lua state whose allocator never fails.
NextLuaMemory == Next /\ LuaHasMemory

SpecLuaMemory == Init /\ [][NextLuaMemory]_vars

\* The legacy entry point, which uses no filter object.
SpecCalc == Init /\ [][Calc]_vars

\* The legacy entry point called with arguments within 0..255.
SpecCalcInRange == Init /\ [][CalcInRange]_vars

\* The legacy entry point called with arguments within 0..255 and tables of
\* numbers.
SpecCalcDense == Init /\ [][CalcDense]_vars

(***************************************************************************)
(* PROPERTIES                                                              *)
(***************************************************************************)

\* The last call was a filtering method that passed luaL_checkudata.
MethodCall == last.op \in {"apply", "apply_valid"} /\ last.before.mt

\* savgol_destroy has run on the filter of userdata h.
Destroyed(h) == ud[h].alloc /\ heap[h].destroys > 0

TooShortMessages ==
  {"input table too short", "input table too short for 'valid' output"}

\* The last call raised one of the two "too short" errors.
RaisedTooShort == last.raised /\ last.msg \in TooShortMessages

\* The data table has a nil at some index within 1..len.
HasHole(data) == \E i \in 1..Len(data) : data[i].t = "nil"

\* C1: once destroy has run on a handle, every apply and apply_valid on it
\* raises "filter has been destroyed" without calling the core or allocating
\* a buffer, and the handle's pointer stays NULL from then on.
C1_UseAfterDestroy ==
  /\ [](MethodCall /\ Destroyed(last.self) =>
          /\ last.raised
          /\ last.msg = "filter has been destroyed"
          /\ last.core = "none"
          /\ last.mallocs = 0
          /\ last.nret = 0)
  /\ [][\A h \in Handles :
          Destroyed(h) => ud'[h].ptr = NULL /\ ~heap'[h].live]_vars

C1_Witness ==
  /\ last.op = "apply_valid"
  /\ last.before.mt
  /\ Destroyed(last.self)
  /\ last.msg = "filter has been destroyed"

C3_OutputLengths ==
  MethodCall /\ ~last.raised =>
    /\ last.nret = 1
    /\ last.ret1 = "table"
    /\ Len(last.data) >= 2 * Deref(last.before.ptr).half_window + 1
    /\ last.op = "apply" => Len(last.out) = Len(last.data)
    /\ last.op = "apply_valid" =>
         Len(last.out) = Len(last.data) - 2 * Deref(last.before.ptr).half_window

C3_Witness ==
  /\ last.op = "apply_valid"
  /\ ~last.raised
  /\ Deref(last.before.ptr).half_window = 1
  /\ Len(last.data) = 5
  /\ Len(last.out) = 3

\* The last call was apply_valid on a live filter with len = window size.
ValidAtWindowSize ==
  /\ last.op = "apply_valid"
  /\ last.before.mt
  /\ last.before.ptr # NULL
  /\ Len(last.data) = Deref(last.before.ptr).window_size

\* C4 as stated: apply_valid on an input of exactly the window size returns
\* a table of length 0.
C4_Original == ValidAtWindowSize /\ ~last.raised => Len(last.out) = 0

\* C4 as amended: apply_valid on an input of exactly the window size is not
\* rejected as too short, and when it returns it returns a table of exactly
\* one element (len - 2n).
C4_Amended ==
  ValidAtWindowSize =>
    /\ ~RaisedTooShort
    /\ ~last.raised => last.ret1 = "table" /\ Len(last.out) = 1

C4_Witness == ValidAtWindowSize /\ ~last.raised /\ last.out = <<"y">>

\* C5: on a live filter apply and apply_valid raise the "too short" error,
\* carrying the window size and the length, exactly when len < window size;
\* they do so before any malloc or core call and leave the handle as it was.
C5_TooShort ==
  MethodCall /\ last.before.ptr # NULL =>
    /\ RaisedTooShort <=> Len(last.data) < Deref(last.before.ptr).window_size
    /\ RaisedTooShort =>
         /\ last.min = Deref(last.before.ptr).window_size
         /\ last.got = Len(last.data)
         /\ last.mallocs = 0
         /\ last.core = "none"
         /\ ud[last.self] = last.before
         /\ heap[last.before.ptr].live

C5_Witness ==
  /\ last.op = "apply"
  /\ last.before.ptr # NULL
  /\ RaisedTooShort
  /\ last.min = 5
  /\ last.got = 4

\* C6: every call has freed every working buffer it malloc'ed when it exits.
C6_NoLeak == last.frees = last.mallocs

\* The configuration errors of calc.
ConfigMessages ==
  {"Half-window size must be greater than 0.",
   "Polynomial order must be less than the filter window size.",
   "Target point must be within the filter window."}

\* C7: calc reports a configuration error exactly when n < 1 or m >= 2n+1 or
\* t > 2n holds of the integers supplied; new raises for every such n and m
\* and, when the core has memory, for no other.
C7_ConfigValidation ==
  /\ last.op = "calc" =>
       (last.msg \in ConfigMessages <=>
          \/ last.n < 1
          \/ last.m >= 2 * last.n + 1
          \/ last.t > 2 * last.n)
  /\ last.op = "new" =>
       /\ (last.n < 1 \/ last.m >= 2 * last.n + 1) => last.raised
       /\ ~(last.n < 1 \/ last.m >= 2 * last.n + 1) /\ ~last.oom => ~last.raised

\* C8: every call of calc returns two values, either a table of the length
\* of the input and nil, or nil and a non-empty message.
C8_TwoValues ==
  last.op = "calc" =>
    /\ ~last.raised
    /\ last.nret = 2
    /\ \/ last.ret1 = "table" /\ last.ret2 = "nil" /\ Len(last.out) = Len(last.data)
       \/ last.ret1 = "nil" /\ last.ret2 = "string" /\ last.msg # ""

\* C9: a call of apply, apply_valid or calc on a table with a hole reports
\* an error and returns no table.
C9_HolesRejected ==
  last.op \in {"apply", "apply_valid", "calc"} /\ HasHole(last.data) =>
    /\ last.raised \/ last.ret1 = "nil"
    /\ last.ret1 # "table"

\* C10: a userdata without the metatable has a NULL pointer, is not held by
\* the script and has had no savgol_destroy call; a userdata with the
\* metatable has a non-null filter until savgol_destroy has run on it; and
\* a new that raised left its userdata without the metatable.
C10_FailedCreate ==
  /\ \A h \in Handles :
       ud[h].alloc =>
         /\ ud[h].mt => (ud[h].ptr # NULL /\ heap[h].live) \/ heap[h].destroys = 1
         /\ ~ud[h].mt =>
              /\ ud[h].ptr = NULL
              /\ ~ud[h].held
              /\ ~heap[h].live
              /\ heap[h].destroys = 0
  /\ (last.op = "new" /\ last.raised =>
        /\ last.nret = 0
        /\ ~ud[last.self].mt
        /\ ~ud[last.self].held)

C10_Witness ==
  /\ last.op = "new"
  /\ last.raised
  /\ ~last.oom
  /\ ud[last.self].alloc
  /\ ~ud[last.self].mt

====
